---- MODULE Spec2Model ----
(***************************************************************************)
(* A model of one_shot_learning/keras/siamese_mnist.py: pool selection     *)
(* (get_digit_indices), pair construction (create_pairs), threshold        *)
(* accuracy (compute_accuracy), and main: model selection, the two         *)
(* training phases with the checkpoint callback, the reload, and the       *)
(* per-query classification loop over the three aggregation policies.      *)
(*                                                                         *)
(* Each routine has a frame of its own (a record variable) and a           *)
(* specification of its own that starts it on inputs drawn from bounded    *)
(* sets.  Python's 0-based positions are kept as values; a Python list or  *)
(* array a is the sequence whose (k+1)-th element is a[k].                 *)
(***************************************************************************)
EXTENDS Integers, Sequences, FiniteSets, TLC

VARIABLES cp,   \* frame of get_digit_indices + create_pairs
          cl,   \* frame of the classification loop of main
          mn,   \* frame of main up to the reload of the checkpoint
          ac,   \* frame of compute_accuracy
          sc    \* frame of the false-positive and false-negative scans of main

vars == <<cp, cl, mn, ac, sc>>

\* ------------------------------------------------------------ constants
NUM_CLASSES == 10
\* 0.50, in hundredths of a unit of score
DISTANCE_THRESHOLD == 50

Classes == 0..(NUM_CLASSES - 1)

\* 999, the magnitude of the initial running best of the classification
\* loop, in hundredths like every score
SENTINEL == 99900

\* EarlyStopping(patience=20, monitor='val_acc')
PATIENCE == 20

\* -------------------------------------------------------------- bounds
\* most examples of one class in a label array
MaxPerClass == 5
\* most training examples of one class in the classification loop
MaxRefPool == 3
\* most query images classified in one run
MaxQueries == 2
\* most pairs handed to compute_accuracy
MaxPairs == 3
\* largest args.min_epochs
MaxMinEpochs == 2
\* the long run: most epochs of the main training phase
LongRun == 22

\* ------------------------------------------------------------- helpers
\* a[k] of a Python list or array
At(a, k) == a[k + 1]

RECURSIVE MinOfSeq(_)
MinOfSeq(s) ==
  IF Len(s) = 1 THEN s[1]
  ELSE LET m == MinOfSeq(Tail(s)) IN IF s[1] <= m THEN s[1] ELSE m

\* C(n, 2)
Choose2(n) == IF n < 2 THEN 0 ELSE (n * (n - 1)) \div 2

\* ------------------------------------------------- get_digit_indices
\* a faulty np.where that lists the positions from the last to the first
WhereMutant(labels, c) ==
  LET N == Len(labels)
  IN SelectSeq([k \in 1..N |-> N - k], LAMBDA z : At(labels, z) = c)

\* np.where(labels == c)[0]: the positions holding c, ascending
Where(labels, c) ==
  SelectSeq([k \in 1..Len(labels) |-> k - 1], LAMBDA z : At(labels, z) = c)

\* a[:k] of Python: the first k elements, or all but the last -k when k < 0
SliceTo(a, k) ==
  IF k >= 0
  THEN SubSeq(a, 1, IF k < Len(a) THEN k ELSE Len(a))
  ELSE SubSeq(a, 1, IF Len(a) + k > 0 THEN Len(a) + k ELSE 0)

get_digit_indices(labels, examples_per_class) ==
  [c \in Classes |-> SliceTo(Where(labels, c), examples_per_class)]

\* ------------------------------------------------------- create_pairs
\* n = min([len(digit_indices[d]) for d in range(NUM_CLASSES)])
MinPoolLen(digit_indices) ==
  MinOfSeq([k \in 1..NUM_CLASSES |-> Len(digit_indices[k - 1])])

\* a faulty draw that starts at 0: np.random.randint(0, NUM_CLASSES)
RandIncMutant == 0..(NUM_CLASSES - 1)

\* np.random.randint(1, NUM_CLASSES)
RandIncRange == 1..(NUM_CLASSES - 1)

\* np.random.randint(0, len(digit_indices[d]))
RandIdxRange(digit_indices, d) == 0..(Len(digit_indices[d]) - 1)

\* dn = (d + rand_inc) % NUM_CLASSES
PartnerClass(d, rand_inc) == (d + rand_inc) % NUM_CLASSES

\* digit_indices[dn][rand_idx] raises IndexError past the end of the array
IndexInBounds(a, k) == 0 <= k /\ k < Len(a)

\* the loop indices after iteration (d, i, j) of the three nested loops,
\* or "end" after the last one
NextIter(n, d, i, j) ==
  IF j + 1 < n THEN [d |-> d, i |-> i, j |-> j + 1, end |-> FALSE]
  ELSE IF i + 1 < n - 1 THEN [d |-> d, i |-> i + 1, j |-> i + 2, end |-> FALSE]
  ELSE IF d + 1 < NUM_CLASSES THEN [d |-> d + 1, i |-> 0, j |-> 1, end |-> FALSE]
  ELSE [d |-> d, i |-> i, j |-> j, end |-> TRUE]

\* main, lines 290 and 293: the pools of a label array
GetDigitIndices ==
  /\ cp.pc = "start"
  /\ cp' = [cp EXCEPT !.pc = "create_pairs",
                      !.digit_indices = get_digit_indices(cp.y, cp.examples_per_class)]
  /\ UNCHANGED <<cl, mn, ac, sc>>

\* create_pairs, lines 52-57: n, and the entry of the loops
CreatePairsEnter ==
  /\ cp.pc = "create_pairs"
  /\ LET n == MinPoolLen(cp.digit_indices)
     IN cp' = [cp EXCEPT !.n = n,
                         !.pc = IF n >= 2 THEN "loop" ELSE "returned",
                         !.d = 0, !.i = 0, !.j = 1]
  /\ UNCHANGED <<cl, mn, ac, sc>>

\* create_pairs, lines 58-66: one iteration of the innermost loop
CreatePairsIter ==
  /\ cp.pc = "loop"
  /\ \E rand_inc \in RandIncRange, rand_idx \in RandIdxRange(cp.digit_indices, cp.d) :
       LET di  == cp.digit_indices
           dn  == PartnerClass(cp.d, rand_inc)
           pos == <<At(di[cp.d], cp.i), At(di[cp.d], cp.j)>>
           nx  == NextIter(cp.n, cp.d, cp.i, cp.j)
       IN IF ~IndexInBounds(di[dn], rand_idx)
          THEN cp' = [cp EXCEPT !.pc = "error", !.err = "IndexError",
                                !.rand_inc = rand_inc, !.rand_idx = rand_idx,
                                !.dn = dn, !.drawn = TRUE]
          ELSE cp' = [cp EXCEPT !.pair_pos = pos,
                                !.pair_neg = <<At(di[cp.d], cp.i), At(di[dn], rand_idx)>>,
                                !.pairs_len = cp.pairs_len + 2,
                                !.labels = cp.labels \o <<1, 0>>,
                                !.rand_inc = rand_inc, !.rand_idx = rand_idx,
                                !.dn = dn, !.drawn = TRUE, !.emit_d = cp.d,
                                !.d = nx.d, !.i = nx.i, !.j = nx.j,
                                !.pc = IF nx.end THEN "returned" ELSE "loop"]
  /\ UNCHANGED <<cl, mn, ac, sc>>

\* ---------------------------------------------- inputs of create_pairs
\* Label arrays: every class has base examples (at most MaxPerClass) but
\* class DevClass, which has one fewer, as many, or one more; the examples are laid out round-robin
\* (even base) or grouped by class from 9 down to 0 (odd base).
DevClass == 3

ClassCounts(base, dev, other) == [c \in Classes |-> IF c = dev THEN other ELSE base]

RECURSIVE Interleaved(_, _)
Interleaved(cnt, r) ==
  IF r > MaxPerClass + 1 THEN <<>>
  ELSE SelectSeq([k \in 1..NUM_CLASSES |-> k - 1], LAMBDA c : cnt[c] >= r)
       \o Interleaved(cnt, r + 1)

RECURSIVE Grouped(_, _)
Grouped(cnt, c) ==
  IF c < 0 THEN <<>>
  ELSE [k \in 1..cnt[c] |-> c] \o Grouped(cnt, c - 1)

LabelArray(base, delta) ==
  LET cnt == ClassCounts(base, DevClass, base + delta)
  IN IF base % 2 = 0 THEN Interleaved(cnt, 1) ELSE Grouped(cnt, NUM_CLASSES - 1)

CountOf(labels, c) == Cardinality({k \in 1..Len(labels) : labels[k] = c})

InitPairs ==
  /\ \E base \in 0..MaxPerClass, delta \in {-1, 0, 1}, epc \in (-1)..MaxPerClass :
       /\ base + delta >= 0
       /\ cp = [pc |-> "start",
             y |-> LabelArray(base, delta),
             examples_per_class |-> epc,
             digit_indices |-> [c \in Classes |-> <<>>],
             n |-> 0, d |-> 0, i |-> 0, j |-> 0,
             pairs_len |-> 0, labels |-> <<>>,
             pair_pos |-> <<0, 0>>, pair_neg |-> <<0, 0>>,
             rand_inc |-> 0, rand_idx |-> 0, dn |-> 0, emit_d |-> 0,
             drawn |-> FALSE, err |-> "none"]
  /\ cl = [pc |-> "idle"]
  /\ mn = [pc |-> "idle"]
  /\ ac = [pc |-> "idle"]
  /\ sc = [pc |-> "idle"]

\* ------------------------------------------- properties of the pairing
PairingRan == cp.pc \in {"create_pairs", "loop", "returned", "error"}

AllCountsAtLeast(labels, m) == \A c \in Classes : CountOf(labels, c) >= m

\* C1: for every pool, create_pairs returns without error exactly
\* 2*K*C(n,2) pairs (n the minimum pool length, n < 2 giving none), labelled
\* 1,0,1,0,... in generation order.
C1_ReturnsAllPairsAlternating ==
  PairingRan =>
    /\ cp.pc # "error"
    /\ cp.pc = "returned" =>
         /\ cp.pairs_len = 2 * NUM_CLASSES * Choose2(MinPoolLen(cp.digit_indices))
         /\ Len(cp.labels) = cp.pairs_len
         /\ \A k \in 1..Len(cp.labels) : cp.labels[k] = (IF k % 2 = 1 THEN 1 ELSE 0)

\* What create_pairs does return when no draw leaves the partner pool: the
\* count and the alternation of C1.
CreatePairsReturnShape ==
  (PairingRan /\ cp.pc = "returned") =>
    /\ cp.pairs_len = 2 * NUM_CLASSES * Choose2(MinPoolLen(cp.digit_indices))
    /\ Len(cp.labels) = cp.pairs_len
    /\ \A k \in 1..Len(cp.labels) : cp.labels[k] = (IF k % 2 = 1 THEN 1 ELSE 0)

\* C2: every emitted pair labelled 1 has both elements of the class d being
\* paired; every pair labelled 0 has its first element of class d and its
\* second of class (d + r) mod K with r in 1..K-1, a class other than d.
C2_PairClasses ==
  (cp.pc \in {"loop", "returned"} /\ cp.pairs_len > 0) =>
    /\ At(cp.y, cp.pair_pos[1]) = cp.emit_d
    /\ At(cp.y, cp.pair_pos[2]) = cp.emit_d
    /\ At(cp.y, cp.pair_neg[1]) = cp.emit_d
    /\ cp.rand_inc \in 1..(NUM_CLASSES - 1)
    /\ At(cp.y, cp.pair_neg[2]) = (cp.emit_d + cp.rand_inc) % NUM_CLASSES
    /\ At(cp.y, cp.pair_neg[2]) # cp.emit_d

\* a negative pair whose partner class wrapped around below d was emitted,
\* and create_pairs returned
C2_Witness ==
  /\ PairingRan
  /\ cp.pc = "returned"
  /\ cp.pairs_len > 0
  /\ At(cp.y, cp.pair_neg[2]) < cp.emit_d
  /\ At(cp.y, cp.pair_pos[1]) = At(cp.y, cp.pair_pos[2])

\* C3: the random index of every negative pair is an index into the partner
\* class's pool, 0 <= rand_idx < len(digit_indices[dn]), whatever the pool
\* lengths, and create_pairs never reads past the end of that pool.
C3_RandIdxWithinPartnerPool ==
  (PairingRan /\ cp.drawn) =>
    /\ 0 <= cp.rand_idx
    /\ cp.rand_idx < Len(cp.digit_indices[cp.dn])
    /\ cp.pc # "error"

\* C9: for examples_per_class >= 0 each class's pool is its first
\* min(examples_per_class, count) positions, ascending, all labelled with the
\* class (no position of the class before the last one kept is left out); with at least 5 examples of every class and examples_per_class = 5
\* create_pairs returns, and returns 200 pairs.
C9_PoolsAndPairCount ==
  (PairingRan /\ cp.examples_per_class >= 0) =>
    /\ \A c \in Classes :
         LET di == cp.digit_indices[c]
             cnt == CountOf(cp.y, c)
             m == IF cp.examples_per_class < cnt THEN cp.examples_per_class ELSE cnt
         IN /\ Len(di) = m
            /\ \A k \in 1..m : At(cp.y, di[k]) = c
            /\ \A k \in 1..(m - 1) : di[k] < di[k + 1]
            /\ \A z \in 0..(Len(cp.y) - 1) :
                 (m > 0 /\ At(cp.y, z) = c /\ z < di[m]) => \E k \in 1..m : di[k] = z
    /\ (cp.examples_per_class = 5 /\ AllCountsAtLeast(cp.y, 5)) =>
         /\ cp.pc # "error"
         /\ cp.pc = "returned" => cp.pairs_len = 200

\* 5 indices per class were kept, one class was truncated from 6, and
\* create_pairs returned its 200 pairs
C9_Witness ==
  /\ PairingRan
  /\ cp.pc = "returned"
  /\ cp.examples_per_class = 5
  /\ AllCountsAtLeast(cp.y, 5)
  /\ CountOf(cp.y, DevClass) = 6
  /\ Len(cp.digit_indices[DevClass]) = 5
  /\ cp.pairs_len = 200


NextPairs == GetDigitIndices \/ CreatePairsEnter \/ CreatePairsIter

SpecPairs == InitPairs /\ [][NextPairs]_vars

\* ================================================= classification loop
\* Scores are in hundredths.  The simple head returns a Euclidean distance
\* sqrt(max(sum_square, epsilon)), any positive number; the dense head ends
\* in a sigmoid, a number of [0, 1].
HeadScores(head) ==
  IF head = "simple_head" THEN {30, 100000} ELSE {0, 100}

\* assessment_criteria, lines 418-429
assessment_criteria(head, new, prev) ==
  IF head = "simple_head" THEN new < prev ELSE new > prev

\* the initial running best, lines 421-423 and 427-429
InitialBest(head) == IF head = "simple_head" THEN SENTINEL ELSE -SENTINEL

\* a faulty n that forgets the - 1
RefCountMutant(tr_digit_indices) == MinPoolLen(tr_digit_indices)

\* n = min([len(tr_digit_indices[d]) for d in range(NUM_CLASSES)]) - 1
RefCount(tr_digit_indices) == MinPoolLen(tr_digit_indices) - 1

RECURSIVE SumOfSeq(_)
SumOfSeq(s) == IF s = <<>> THEN 0 ELSE s[1] + SumOfSeq(Tail(s))

\* the k-th smallest element of s (k from 1)
KthSmallest(s, k) ==
  CHOOSE v \in {s[x] : x \in 1..Len(s)} :
    /\ Cardinality({x \in 1..Len(s) : s[x] < v}) < k
    /\ Cardinality({x \in 1..Len(s) : s[x] <= v}) >= k

\* np.min(predictions)
NpMin(predictions) == MinOfSeq(predictions)

\* np.median(predictions), doubled: the middle element, or the mean of the
\* two middle elements, of the sorted scores
NpMedian2(predictions) ==
  LET m == Len(predictions)
  IN IF m % 2 = 1
     THEN 2 * KthSmallest(predictions, (m + 1) \div 2)
     ELSE KthSmallest(predictions, m \div 2) + KthSmallest(predictions, m \div 2 + 1)

\* np.mean(predictions), times the number n of scores
NpMeanN(predictions) == SumOfSeq(predictions)

\* image_pairs[:, 0] of line 442 needs a 2-d array: np.array([]) of no pair
\* is 1-d and the subscript raises IndexError
CanSlicePairs(n) == n > 0

\* the running best of one policy after a class: lines 445-447, 450-452,
\* 455-457
Track(head, best, new, d) ==
  IF assessment_criteria(head, new, best.value)
  THEN [value |-> new, label |-> d]
  ELSE best

\* History of the scan of one query, per policy: the extremal aggregate of
\* the classes scanned so far and the lowest class that produced it (a later
\* class replaces it only with a strictly better aggregate); first is -1
\* before any class is scanned.
Better(head, a, b) == IF head = "simple_head" THEN a < b ELSE a > b

Seen(head, h, new, d) ==
  IF h.first = -1 \/ Better(head, new, h.value)
  THEN [value |-> new, first |-> d]
  ELSE h

NoHistory == [value |-> 0, first |-> -1]

Policies == {"min", "median", "mean"}

\* the unit in which the running best of a policy is kept: the median
\* doubled, the mean times n
Unit(policy, n) == IF policy = "min" THEN 1 ELSE IF policy = "median" THEN 2 ELSE n

Aggregate(policy, predictions) ==
  IF policy = "min" THEN NpMin(predictions)
  ELSE IF policy = "median" THEN NpMedian2(predictions)
  ELSE NpMeanN(predictions)

\* lines 413-433: the next query image, or the end of the loop
ClassifyQueryEnter ==
  /\ cl.pc = "query"
  /\ cl.t < Len(cl.y_test)
  /\ LET n == RefCount(cl.tr_digit_indices)
     IN cl' = [cl EXCEPT !.pc = "class", !.n = n, !.d = 0,
                  !.best = [p \in Policies |->
                              [value |-> Unit(p, n) * InitialBest(cl.head),
                               label |-> -1]],
                  !.seen = [p \in Policies |-> NoHistory]]
  /\ UNCHANGED <<cp, mn, ac, sc>>

\* lines 435-457: the reference pairs of class d, their scores, and the
\* three running bests
ClassifyClass ==
  /\ cl.pc = "class"
  /\ IF ~CanSlicePairs(cl.n)
     THEN cl' = [cl EXCEPT !.pc = "error", !.err = "IndexError"]
     ELSE \E predictions \in [1..cl.n -> HeadScores(cl.head)] :
            cl' = [cl EXCEPT
                     !.best = [p \in Policies |->
                                 Track(cl.head, cl.best[p],
                                       Aggregate(p, predictions), cl.d)],
                     !.seen = [p \in Policies |->
                                 Seen(cl.head, cl.seen[p],
                                      Aggregate(p, predictions), cl.d)],
                     !.d = cl.d + 1,
                     !.pc = IF cl.d + 1 < NUM_CLASSES THEN "class" ELSE "compare"]
  /\ UNCHANGED <<cp, mn, ac, sc>>

\* lines 459-466: the three predicted labels against the true label
ClassifyCompare ==
  /\ cl.pc = "compare"
  /\ LET truth == At(cl.y_test, cl.t)
     IN cl' = [cl EXCEPT
                 !.correct = [p \in Policies |->
                                IF truth = cl.best[p].label
                                THEN cl.correct[p] + 1 ELSE cl.correct[p]],
                 !.compared = cl.compared + 1,
                 !.t = cl.t + 1,
                 !.pc = "query"]
  /\ UNCHANGED <<cp, mn, ac, sc>>

\* lines 468-470: the three accuracies, correct / x_test.shape[0]
ClassifyPrint ==
  /\ cl.pc = "query"
  /\ cl.t = Len(cl.y_test)
  /\ cl' = [cl EXCEPT !.pc = "printed",
                      !.printed = [p \in Policies |-> <<cl.correct[p], Len(cl.y_test)>>]]
  /\ UNCHANGED <<cp, mn, ac, sc>>

\* ------------------------------------ inputs of the classification loop
QueryLabels == {0, 9}
Heads == {"simple_head", "dense_head"}

InitClassify ==
  /\ \E head \in Heads, base \in 0..MaxRefPool, delta \in {-1, 0},
        T \in 1..MaxQueries :
       \E y_test \in [1..T -> QueryLabels] :
         /\ base + delta >= 0
         /\ cl = [pc |-> "query", head |-> head,
                  tr_digit_indices |-> get_digit_indices(LabelArray(base, delta), base),
                  y_test |-> y_test, t |-> 0, n |-> 0, d |-> 0,
                  best |-> [p \in Policies |-> [value |-> 0, label |-> -1]],
                  seen |-> [p \in Policies |-> NoHistory],
                  correct |-> [p \in Policies |-> 0],
                  compared |-> 0,
                  printed |-> [p \in Policies |-> <<>>],
                  err |-> "none"]
  /\ cp = [pc |-> "idle"]
  /\ mn = [pc |-> "idle"]
  /\ ac = [pc |-> "idle"]
  /\ sc = [pc |-> "idle"]

\* ------------------------------- properties of the classification loop
ClassifyRan == cl.pc \in {"query", "class", "compare", "printed", "error"}

\* C4: after the scan of classes 0..K-1 the label of each policy is the
\* lowest class whose aggregate under that policy is extremal (ties keep the
\* earlier class), whatever the aggregates of the other two policies.
C4_LowestExtremalClass ==
  (ClassifyRan /\ cl.pc = "compare") =>
    \A p \in Policies : cl.best[p].label = cl.seen[p].first

\* The tie-break of C4 for the policies whose running best did beat the
\* initial value.
TieBreakWhenInitialBestBeaten ==
  (ClassifyRan /\ cl.pc = "compare") =>
    \A p \in Policies :
      cl.best[p].label # -1 =>
        /\ cl.best[p].label = cl.seen[p].first
        /\ cl.best[p].value = cl.seen[p].value

\* C5: the aggregate of the first class scanned beats the initial running
\* best for every score the model returns, so after the scan no label is -1.
C5_InitialBestBeaten ==
  (ClassifyRan /\ cl.pc \in {"class", "compare"} /\ cl.d >= 1) =>
    \A p \in Policies :
      /\ cl.best[p].label \in Classes
      /\ cl.d = 1 => cl.best[p].label = 0

\* The dense head's scores, in [0, 1], do beat its initial running best.
DenseHeadInitialBestBeaten ==
  (ClassifyRan /\ cl.pc \in {"class", "compare"} /\ cl.d >= 1
     /\ cl.head = "dense_head") =>
    \A p \in Policies : cl.best[p].label \in Classes

\* C6: with no reference example per class (minimum training-pool length
\* minus one <= 0) classifying the first query ends in an error before any
\* class is scored: no label is compared with the true label, no counter is
\* updated, no accuracy is printed.
C6_NoReferenceIsAnError ==
  (ClassifyRan /\ MinPoolLen(cl.tr_digit_indices) - 1 <= 0) =>
    /\ cl.pc \in {"query", "class", "error"}
    /\ cl.t = 0
    /\ cl.d = 0
    /\ cl.compared = 0
    /\ \A p \in Policies : cl.correct[p] = 0 /\ cl.printed[p] = <<>>
    /\ cl.pc = "error" => cl.err = "IndexError"

\* the first query of a run whose pools hold one example per class was
\* entered with n = 0, and its first class raised
C6_Witness ==
  /\ ClassifyRan
  /\ MinPoolLen(cl.tr_digit_indices) = 1
  /\ cl.n = 0
  /\ cl.pc = "error"
  /\ cl.err = "IndexError"
  /\ \A p \in Policies : cl.best[p].label = -1

NextClassify == ClassifyQueryEnter \/ ClassifyClass \/ ClassifyCompare \/ ClassifyPrint

SpecClassify == InitClassify /\ [][NextClassify]_vars

\* ==================================================== compute_accuracy
\* y_pred is the (N, 1) array model.predict returns: a sequence of rows of
\* one score each, in hundredths.  y_true is the (N,) array of labels.

\* y_pred.ravel()
Ravel(y_pred) == [k \in 1..Len(y_pred) |-> y_pred[k][1]]

\* a faulty test that counts a score equal to the threshold as below it
BelowThresholdMutant(score) == score <= DISTANCE_THRESHOLD

\* score < DISTANCE_THRESHOLD, elementwise
BelowThreshold(score) == score < DISTANCE_THRESHOLD

\* numpy compares a boolean with an integer by value: True is 1, False is 0
BoolAsInt(b) == IF b THEN 1 ELSE 0

\* pred == y_true, elementwise
ElementwiseEq(pred, y_true) ==
  [k \in 1..Len(pred) |-> BoolAsInt(pred[k]) = y_true[k]]

\* np.mean of a boolean array, as the fraction <<number of True, length>>
NpMeanBool(b) == <<Cardinality({k \in 1..Len(b) : b[k]}), Len(b)>>

compute_accuracy(y_true, y_pred) ==
  LET r == Ravel(y_pred)
      pred == [k \in 1..Len(r) |-> BelowThreshold(r[k])]
  IN NpMeanBool(ElementwiseEq(pred, y_true))

\* lines 353-354: the call
ComputeAccuracy ==
  /\ ac.pc = "call"
  /\ ac' = [ac EXCEPT !.pc = "returned",
                      !.result = compute_accuracy(ac.y_true, ac.y_pred)]
  /\ UNCHANGED <<cp, cl, mn, sc>>

\* lines 361-362: the accuracy is printed as a percentage
PrintAccuracy ==
  /\ ac.pc = "returned"
  /\ ac' = [ac EXCEPT !.pc = "printed"]
  /\ UNCHANGED <<cp, cl, mn, sc>>

\* scores around the threshold, in hundredths
PairScores == {0, 49, 50, 51, 100}

InitAccuracy ==
  /\ \E N \in 1..MaxPairs :
       \E y_true \in [1..N -> {0, 1}], scores \in [1..N -> PairScores] :
         ac = [pc |-> "call", y_true |-> y_true,
               y_pred |-> [k \in 1..N |-> <<scores[k]>>],
               result |-> <<0, 0>>]
  /\ cp = [pc |-> "idle"]
  /\ cl = [pc |-> "idle"]
  /\ mn = [pc |-> "idle"]
  /\ sc = [pc |-> "idle"]

AccuracyRan == ac.pc \in {"returned", "printed"}

\* the positions where the threshold test agrees with the label
Agreeing(y_true, y_pred) ==
  {k \in 1..Len(y_true) : (y_pred[k][1] < DISTANCE_THRESHOLD) <=> (y_true[k] = 1)}

\* C8: compute_accuracy returns the fraction of positions where
\* (y_pred[i] < 0.50) equals (y_true[i] = 1): 1.0 when every position
\* agrees, 0.0 when none does, and a score of exactly 0.50 is predicted 0.
C8_AccuracyIsAgreeingFraction ==
  AccuracyRan =>
    LET agree == Agreeing(ac.y_true, ac.y_pred)
        N == Len(ac.y_true)
    IN /\ ac.result = <<Cardinality(agree), N>>
       /\ agree = 1..N => ac.result[1] = ac.result[2]
       /\ agree = {} => ac.result[1] = 0
       /\ \A k \in 1..N :
            ac.y_pred[k][1] = DISTANCE_THRESHOLD => (k \in agree <=> ac.y_true[k] = 0)
       /\ (\E k \in 1..N : ac.y_pred[k][1] = DISTANCE_THRESHOLD /\ ac.y_true[k] = 1)
            => ac.result[1] < ac.result[2]

\* an accuracy of 1.0 over pairs of both labels, one of them scored exactly
\* 0.50 and labelled 0
C8_Witness ==
  /\ AccuracyRan
  /\ Len(ac.y_true) >= 2
  /\ ac.result[1] = ac.result[2]
  /\ \E k \in 1..Len(ac.y_true) : ac.y_pred[k][1] = DISTANCE_THRESHOLD /\ ac.y_true[k] = 0
  /\ \E k \in 1..Len(ac.y_true) : ac.y_true[k] = 1

NextAccuracy == ComputeAccuracy \/ PrintAccuracy

SpecAccuracy == InitAccuracy /\ [][NextAccuracy]_vars

\* ================================================================ main
\* main from the pools to the reload of the checkpoint.  The weights of the
\* model are named by the epoch that produced them, with the validation
\* accuracy measured at the end of that epoch (in percent); -1 stands for
\* the -inf the callbacks start from.
NegInf == 0 - 1
ValAccs == {0, 50, 100}
BaseNetworks == {"nn", "cnn", "fcn"}

\* a faulty builder that falls back to a default base network instead of
\* raising
create_simple_siamese_modelMutant(base_network_model) ==
  [ok |-> TRUE, head |-> "simple_head", err |-> "none"]

\* lines 155-163, 173-178: the simple head over a known base network
create_simple_siamese_model(base_network_model) ==
  IF base_network_model \in BaseNetworks
  THEN [ok |-> TRUE, head |-> "simple_head", err |-> "none"]
  ELSE [ok |-> FALSE, head |-> "none", err |-> "Unknown base network model type."]

\* lines 181-189, 207-212: the dense head over a known base network
create_dense_siamese_model(base_network_model) ==
  IF base_network_model \in BaseNetworks
  THEN [ok |-> TRUE, head |-> "dense_head", err |-> "none"]
  ELSE [ok |-> FALSE, head |-> "none", err |-> "Unknown base network model type."]

\* lines 299-304
BuildModel(args) ==
  IF args.model = "simple_head" THEN create_simple_siamese_model(args.base_network)
  ELSE IF args.model = "dense_head" THEN create_dense_siamese_model(args.base_network)
  ELSE [ok |-> FALSE, head |-> "none", err |-> "Unknown model type."]

\* lines 310-320: the callbacks of the main training phase, in order
Callbacks(args) ==
  (IF args.early_stopping THEN <<"EarlyStopping">> ELSE <<>>)
    \o <<"ReduceLROnPlateau", "ModelCheckpoint">>

Installed(callbacks, name) == \E k \in 1..Len(callbacks) : callbacks[k] = name

\* tr_pairs[:, 0] of lines 326 and 333: the array of no pair is 1-d and the
\* subscript raises IndexError
CanSliceColumns(pairs_len) == pairs_len > 0

\* EarlyStopping.on_epoch_end, monitor val_acc (mode max)
EarlyStoppingEpoch(es, val_acc) ==
  IF val_acc > es.best
  THEN [best |-> val_acc, wait |-> 0, stop |-> FALSE]
  ELSE [best |-> es.best, wait |-> es.wait + 1, stop |-> es.wait + 1 >= PATIENCE]

\* ModelCheckpoint.on_epoch_end, save_best_only on val_acc (mode max): does
\* this epoch overwrite checkpoints/ckp
CheckpointSaves(mc_best, val_acc) == val_acc > mc_best

\* bool(s) of a Python string: False for the empty string, True for every
\* other one
PyBool(s) == s # ""

\* the value argparse gives args.early_stopping, line 487: default=True
\* when the flag is not on the command line, else type=bool applied to the
\* string that follows it
ParseEarlyStopping(argv) == IF argv = "absent" THEN TRUE ELSE PyBool(argv)

\* lines 474-490: parse_args.  --model and --base_network are taken from
\* their choices and the int options as numbers; --early_stopping goes
\* through type=bool
MainParseArgs ==
  /\ mn.pc = "parse"
  /\ mn' = [mn EXCEPT !.args.early_stopping = ParseEarlyStopping(mn.argv_early_stopping),
                      !.pc = "pairs"]
  /\ UNCHANGED <<cp, cl, ac, sc>>

\* lines 290-294: MNIST holds more examples of every class than any
\* examples_per_class drawn here, so every pool has examples_per_class
\* indices and create_pairs returns 2*K*C(n,2) pairs
MainCreatePairs ==
  /\ mn.pc = "pairs"
  /\ LET n == mn.args.examples_per_class
     IN mn' = [mn EXCEPT !.pc = "build",
                         !.tr_pairs_len = 2 * NUM_CLASSES * Choose2(n),
                         !.te_pairs_len = 2 * NUM_CLASSES * Choose2(n)]
  /\ UNCHANGED <<cp, cl, ac, sc>>

\* lines 299-320: the model, or the fatal configuration error; then the
\* callbacks
MainBuildModel ==
  /\ mn.pc = "build"
  /\ LET m == BuildModel(mn.args)
     IN IF ~m.ok
        THEN mn' = [mn EXCEPT !.pc = "error", !.err = m.err]
        ELSE mn' = [mn EXCEPT !.model = m.head,
                              !.callbacks = Callbacks(mn.args),
                              !.pc = IF mn.args.min_epochs # 0 THEN "pretrain" ELSE "train"]
  /\ UNCHANGED <<cp, cl, ac, sc>>

\* lines 322-330: the call of fit for the pre-training, without callbacks
MainPretrainBegin ==
  /\ mn.pc = "pretrain"
  /\ IF ~CanSliceColumns(mn.tr_pairs_len) \/ ~CanSliceColumns(mn.te_pairs_len)
     THEN mn' = [mn EXCEPT !.pc = "error", !.err = "IndexError"]
     ELSE mn' = [mn EXCEPT !.pc = "pretrain_epoch", !.fit_calls = mn.fit_calls + 1]
  /\ UNCHANGED <<cp, cl, ac, sc>>

\* one epoch of the pre-training fit: epochs 1..min_epochs
MainPretrainEpoch ==
  /\ mn.pc = "pretrain_epoch"
  /\ \E val_acc \in ValAccs :
       LET e == mn.epoch + 1
       IN mn' = [mn EXCEPT !.epoch = e,
                           !.weights = [epoch |-> e, val_acc |-> val_acc],
                           !.max_val_acc = IF val_acc > mn.max_val_acc
                                           THEN val_acc ELSE mn.max_val_acc,
                           !.pc = IF e < mn.args.min_epochs THEN "pretrain_epoch"
                                  ELSE "train"]
  /\ UNCHANGED <<cp, cl, ac, sc>>

\* lines 333-339: the call of fit for the main phase, initial_epoch =
\* min_epochs, epochs = max_epochs; on_train_begin resets the callbacks
MainTrainBegin ==
  /\ mn.pc = "train"
  /\ IF ~CanSliceColumns(mn.tr_pairs_len) \/ ~CanSliceColumns(mn.te_pairs_len)
     THEN mn' = [mn EXCEPT !.pc = "error", !.err = "IndexError"]
     ELSE mn' = [mn EXCEPT !.fit_calls = mn.fit_calls + 1,
                           !.es = [best |-> NegInf, wait |-> 0, stop |-> FALSE],
                           !.mc_best = NegInf,
                           !.history_len = 0,
                           !.pc = IF mn.args.min_epochs < mn.args.max_epochs
                                  THEN "train_epoch" ELSE "plot"]
  /\ UNCHANGED <<cp, cl, ac, sc>>

\* one epoch of the main fit and the callbacks at its end
MainTrainEpoch ==
  /\ mn.pc = "train_epoch"
  /\ \E val_acc \in ValAccs :
       LET e == mn.epoch + 1
           w == [epoch |-> e, val_acc |-> val_acc]
           es == IF Installed(mn.callbacks, "EarlyStopping")
                 THEN EarlyStoppingEpoch(mn.es, val_acc) ELSE mn.es
           saves == CheckpointSaves(mn.mc_best, val_acc)
       IN mn' = [mn EXCEPT !.epoch = e,
                           !.weights = w,
                           !.history_len = mn.history_len + 1,
                           !.es = es,
                           !.mc_best = IF saves THEN val_acc ELSE mn.mc_best,
                           !.ckpt = IF saves THEN [run |-> "this", weights |-> w]
                                    ELSE mn.ckpt,
                           !.ckpt_writes = IF saves THEN mn.ckpt_writes + 1
                                           ELSE mn.ckpt_writes,
                           !.max_val_acc = IF val_acc > mn.max_val_acc
                                           THEN val_acc ELSE mn.max_val_acc,
                           !.max_main_val_acc = IF val_acc > mn.max_main_val_acc
                                                THEN val_acc ELSE mn.max_main_val_acc,
                           !.pc = IF es.stop \/ e >= mn.args.max_epochs
                                  THEN "plot" ELSE "train_epoch"]
  /\ UNCHANGED <<cp, cl, ac, sc>>

\* lines 341-342: the History of a fit that ran no epoch is empty, and
\* history.history['loss'] raises KeyError
MainPlotHistory ==
  /\ mn.pc = "plot"
  /\ IF mn.history_len = 0
     THEN mn' = [mn EXCEPT !.pc = "error", !.err = "KeyError"]
     ELSE mn' = [mn EXCEPT !.pc = "load"]
  /\ UNCHANGED <<cp, cl, ac, sc>>

\* lines 345-346: the latest checkpoint of the directory, whoever wrote it
MainLoadWeights ==
  /\ mn.pc = "load"
  /\ IF mn.ckpt.run = "none"
     THEN mn' = [mn EXCEPT !.pc = "error", !.err = "load_weights(None)"]
     ELSE mn' = [mn EXCEPT !.weights = mn.ckpt.weights,
                           !.loaded_from = mn.ckpt.run,
                           !.pc = "evaluate"]
  /\ UNCHANGED <<cp, cl, ac, sc>>

\* ------------------------------------------------------ inputs of main
ModelArgs == {"simple_head", "dense_head", "other_head"}
BaseNetworkArgs == BaseNetworks \cup {"other_network"}
NoWeights == [epoch |-> 0, val_acc |-> NegInf]
\* the checkpoint directory before the run: empty, or left by an earlier run
OldCheckpoints ==
  {[run |-> "none", weights |-> NoWeights], [run |-> "earlier", weights |-> NoWeights]}

\* what follows --early_stopping on the command line: nothing ("absent":
\* the flag is not given), or one string
EarlyStoppingArgv == {"absent", "true", "false", ""}
\* the choices of --model and --base_network; argparse rejects every other
\* value before main is called
ModelChoices == {"simple_head", "dense_head"}
BaseNetworkChoices == {"fcn", "cnn", "nn"}

\* main is entered from the command line (pc "parse": the options are on
\* the command line, args.early_stopping holds the parser's default until
\* parse_args has run) or called with a namespace of the caller's (pc
\* "pairs": no command line, argv_early_stopping is "no_argv")
InitMain ==
  /\ \E model \in ModelArgs, base_network \in BaseNetworkArgs,
        early_stopping \in BOOLEAN, examples_per_class \in {1, 2},
        min_epochs \in 0..MaxMinEpochs, more \in {0, 1, 2, LongRun},
        old \in OldCheckpoints,
        argv \in EarlyStoppingArgv \cup {"no_argv"} :
       /\ argv # "no_argv" =>
            /\ model \in ModelChoices
            /\ base_network \in BaseNetworkChoices
            /\ early_stopping = TRUE
       /\ mn = [pc |-> IF argv = "no_argv" THEN "pairs" ELSE "parse",
             argv_early_stopping |-> argv,
             args |-> [model |-> model, base_network |-> base_network,
                       early_stopping |-> early_stopping,
                       examples_per_class |-> examples_per_class,
                       min_epochs |-> min_epochs, max_epochs |-> min_epochs + more],
             tr_pairs_len |-> 0, te_pairs_len |-> 0,
             model |-> "none", callbacks |-> <<>>,
             fit_calls |-> 0, epoch |-> 0, history_len |-> 0,
             weights |-> NoWeights,
             es |-> [best |-> NegInf, wait |-> 0, stop |-> FALSE],
             mc_best |-> NegInf,
             ckpt |-> old, ckpt_writes |-> 0, loaded_from |-> "none",
             max_val_acc |-> NegInf, max_main_val_acc |-> NegInf,
             err |-> "none"]
  /\ cp = [pc |-> "idle"]
  /\ cl = [pc |-> "idle"]
  /\ ac = [pc |-> "idle"]
  /\ sc = [pc |-> "idle"]

\* ------------------------------------------------- properties of main
MainRan == mn.pc # "idle"

UnknownConfiguration ==
  \/ mn.args.model \notin {"simple_head", "dense_head"}
  \/ mn.args.base_network \notin {"nn", "cnn", "fcn"}

\* C7: the weights loaded before the final evaluation are those of the
\* epoch with the highest validation accuracy among the epochs trained in
\* the run, read from a checkpoint this run wrote.
C7_LoadsBestEpochOfRun ==
  (MainRan /\ mn.pc = "evaluate") =>
    /\ mn.weights.val_acc = mn.max_val_acc
    /\ mn.loaded_from = "this"
    /\ mn.ckpt_writes >= 1

\* What the reload does give: the first epoch of the main phase (after the
\* min_epochs epochs of pre-training) that reached the highest validation
\* accuracy of the main phase, from a checkpoint of this run.
LoadsBestEpochOfMainPhase ==
  (MainRan /\ mn.pc = "evaluate") =>
    /\ mn.weights.val_acc = mn.max_main_val_acc
    /\ mn.weights.epoch > mn.args.min_epochs
    /\ mn.weights.epoch <= mn.args.max_epochs
    /\ mn.loaded_from = "this"
    /\ mn.ckpt_writes >= 1

\* Early stopping ends the main phase before max_epochs only after PATIENCE
\* epochs without improvement.
EarlyStoppingAfterPatience ==
  (MainRan /\ mn.pc \in {"plot", "load", "evaluate"} /\ mn.epoch < mn.args.max_epochs) =>
    /\ mn.args.early_stopping
    /\ mn.es.wait >= PATIENCE

\* Pools of fewer than 2 examples give no pair, and the run then ends at
\* the first fit, before any epoch, reload, evaluation or classification.
NoPairsFailAtFit ==
  (MainRan /\ mn.args.examples_per_class < 2) =>
    /\ mn.pc \in {"parse", "pairs", "build", "pretrain", "train", "error"}
    /\ mn.epoch = 0
    /\ mn.fit_calls = 0

\* C10: with a head other than simple_head/dense_head or a base network
\* other than nn/cnn/fcn the run ends in the configuration error; no fit is
\* called, no epoch is trained and no checkpoint is written before it,
\* whatever the other options.
C10_UnknownConfigurationIsFatal ==
  (MainRan /\ UnknownConfiguration) =>
    /\ mn.pc \in {"parse", "pairs", "build", "error"}
    /\ mn.fit_calls = 0
    /\ mn.epoch = 0
    /\ mn.ckpt_writes = 0
    /\ mn.ckpt.run # "this"
    /\ mn.pc = "error" =>
         mn.err \in {"Unknown model type.", "Unknown base network model type."}

\* a run asked to pre-train a simple head over an unknown base network
\* ended in the configuration error
C10_Witness ==
  /\ MainRan
  /\ mn.pc = "error"
  /\ mn.err = "Unknown base network model type."
  /\ mn.args.model = "simple_head"
  /\ mn.args.min_epochs > 0
  /\ mn.fit_calls = 0

\* the command line was parsed, the model built and the callbacks of the
\* main training phase put together
CallbacksBuilt ==
  /\ mn.argv_early_stopping \in EarlyStoppingArgv
  /\ mn.pc \in {"pretrain", "pretrain_epoch", "train", "train_epoch",
               "plot", "load", "evaluate"}

\* C11: --early_stopping true installs the early-stopping callback for the
\* main training phase, and --early_stopping false does not install it.
C11_FlagSelectsEarlyStopping ==
  (MainRan /\ CallbacksBuilt) =>
    /\ mn.argv_early_stopping = "true" => Installed(mn.callbacks, "EarlyStopping")
    /\ mn.argv_early_stopping = "false" => ~Installed(mn.callbacks, "EarlyStopping")

\* What the parser does give: the callback is installed unless the flag is
\* followed by the empty string; so it is with "true", with "false" and
\* without the flag.
EarlyStoppingUnlessEmptyString ==
  (MainRan /\ CallbacksBuilt) =>
    (Installed(mn.callbacks, "EarlyStopping") <=> mn.argv_early_stopping # "")

\* a run started with --early_stopping false that early stopping ended
\* before max_epochs
StoppedEarlyDespiteFalse ==
  /\ MainRan
  /\ mn.argv_early_stopping = "false"
  /\ mn.pc = "plot"
  /\ mn.es.stop
  /\ mn.epoch < mn.args.max_epochs

Next ==
  \/ MainParseArgs
  \/ MainCreatePairs
  \/ MainBuildModel
  \/ MainPretrainBegin
  \/ MainPretrainEpoch
  \/ MainTrainBegin
  \/ MainTrainEpoch
  \/ MainPlotHistory
  \/ MainLoadWeights

Spec == InitMain /\ [][Next]_vars

\* ============================================= the scans of main
\* main, lines 372-406: the scan of the test pairs for the first false
\* positives and the scan for the first false negatives.  te_y is the label
\* array create_pairs returned for the test set (1, 0, 1, 0, ...); te_pred
\* is the (N, 1) array of the model's scores, in hundredths.

\* the number of pairs each scan collects: while len(image_pairs) < 10
SCAN_COUNT == 10

\* most examples of one class in the test pools
MaxTestPool == 3
\* most wrongly scored pairs of one label in the test set
MaxWrong == 11

\* lines 384 and 399: is the pair at index predicted a positive one
PredictedPositive(head, te_pred, index) ==
  assessment_criteria(head, At(te_pred, index)[1], DISTANCE_THRESHOLD)

\* the test of line 384
IsFalsePositive(head, te_pred, te_y, index) ==
  PredictedPositive(head, te_pred, index) /\ At(te_y, index) = 0

\* the test of line 399
IsFalseNegative(head, te_pred, te_y, index) ==
  ~PredictedPositive(head, te_pred, index) /\ At(te_y, index) = 1

\* lines 372-382: the comparison of the head, and the start of the first scan
ScanBegin ==
  /\ sc.pc = "begin"
  /\ sc' = [sc EXCEPT !.pc = "fp_scan", !.index = 0, !.image_pairs = <<>>]
  /\ UNCHANGED <<cp, cl, mn, ac>>

\* lines 383-388: one iteration of the first loop, entered with fewer than
\* SCAN_COUNT pairs collected; te_pred[index] raises IndexError past the end
ScanFalsePositives ==
  /\ sc.pc = "fp_scan"
  /\ Len(sc.image_pairs) < SCAN_COUNT
  /\ IF ~IndexInBounds(sc.te_pred, sc.index)
     THEN sc' = [sc EXCEPT !.pc = "error", !.err = "IndexError", !.failed = "fp_scan"]
     ELSE LET hit == IsFalsePositive(sc.head, sc.te_pred, sc.te_y, sc.index)
              ip  == IF hit THEN Append(sc.image_pairs, sc.index) ELSE sc.image_pairs
          IN sc' = [sc EXCEPT !.image_pairs = ip,
                              !.index = sc.index + 1,
                              !.reads = sc.reads + 1,
                              !.pc = IF Len(ip) < SCAN_COUNT THEN "fp_scan" ELSE "fp_plot"]
  /\ UNCHANGED <<cp, cl, mn, ac>>

\* lines 389-397: the plot of the false positives, and the start of the
\* second scan
ScanPlotFalsePositives ==
  /\ sc.pc = "fp_plot"
  /\ sc' = [sc EXCEPT !.fp_plotted = sc.image_pairs,
                      !.pc = "fn_scan", !.index = 0, !.image_pairs = <<>>]
  /\ UNCHANGED <<cp, cl, mn, ac>>

\* lines 398-403: one iteration of the second loop
ScanFalseNegatives ==
  /\ sc.pc = "fn_scan"
  /\ Len(sc.image_pairs) < SCAN_COUNT
  /\ IF ~IndexInBounds(sc.te_pred, sc.index)
     THEN sc' = [sc EXCEPT !.pc = "error", !.err = "IndexError", !.failed = "fn_scan"]
     ELSE LET hit == IsFalseNegative(sc.head, sc.te_pred, sc.te_y, sc.index)
              ip  == IF hit THEN Append(sc.image_pairs, sc.index) ELSE sc.image_pairs
          IN sc' = [sc EXCEPT !.image_pairs = ip,
                              !.index = sc.index + 1,
                              !.reads = sc.reads + 1,
                              !.pc = IF Len(ip) < SCAN_COUNT THEN "fn_scan" ELSE "fn_plot"]
  /\ UNCHANGED <<cp, cl, mn, ac>>

\* lines 404-406: the plot of the false negatives
ScanPlotFalseNegatives ==
  /\ sc.pc = "fn_plot"
  /\ sc' = [sc EXCEPT !.fn_plotted = sc.image_pairs, !.pc = "scanned"]
  /\ UNCHANGED <<cp, cl, mn, ac>>

\* ------------------------------------------------ inputs of the scans
\* te_y of create_pairs over pools of n examples: 2*K*C(n,2) labels that
\* alternate 1, 0
TestLabels(n) == [k \in 1..(2 * NUM_CLASSES * Choose2(n)) |-> k % 2]

\* a score on the side of the threshold that predicts a positive pair, or
\* on the other side (far: 100 or 0; else exactly the threshold)
ScoreFor(head, positive, far) ==
  IF head = "simple_head"
  THEN (IF positive THEN 0 ELSE IF far THEN 100 ELSE DISTANCE_THRESHOLD)
  ELSE (IF positive THEN 100 ELSE IF far THEN 0 ELSE DISTANCE_THRESHOLD)

\* Scores that get wrong fp of the negative pairs and fn of the positive
\* pairs: the first ones of the array, or the last ones.
TestScores(head, n, fp, fp_first, fn, fn_first, far) ==
  LET half == NUM_CLASSES * Choose2(n)
      Wrong(ord, cnt, first) == IF first THEN ord < cnt ELSE ord >= half - cnt
  IN [k \in 1..(2 * half) |->
        LET ord == (k - 1) \div 2
        IN IF k % 2 = 1
           THEN <<ScoreFor(head, ~Wrong(ord, fn, fn_first), far)>>
           ELSE <<ScoreFor(head, Wrong(ord, fp, fp_first), far)>>]

InitScan ==
  /\ \E head \in Heads, n \in 2..MaxTestPool,
        fp \in 0..MaxWrong, fn \in 0..MaxWrong,
        fp_first \in BOOLEAN, fn_first \in BOOLEAN, far \in BOOLEAN :
       /\ fp <= NUM_CLASSES * Choose2(n)
       /\ fn <= NUM_CLASSES * Choose2(n)
       /\ sc = [pc |-> "begin", head |-> head,
                te_y |-> TestLabels(n),
                te_pred |-> TestScores(head, n, fp, fp_first, fn, fn_first, far),
                index |-> 0, image_pairs |-> <<>>, reads |-> 0,
                fp_plotted |-> <<>>, fn_plotted |-> <<>>,
                failed |-> "none", err |-> "none"]
  /\ cp = [pc |-> "idle"]
  /\ cl = [pc |-> "idle"]
  /\ mn = [pc |-> "idle"]
  /\ ac = [pc |-> "idle"]

\* --------------------------------------------- properties of the scans
ScanRan == sc.pc # "idle"

\* the indices of the false positives and of the false negatives of the
\* test set
FalsePositives ==
  {k \in 0..(Len(sc.te_pred) - 1) : IsFalsePositive(sc.head, sc.te_pred, sc.te_y, k)}
FalseNegatives ==
  {k \in 0..(Len(sc.te_pred) - 1) : IsFalseNegative(sc.head, sc.te_pred, sc.te_y, k)}

\* s lists, ascending, the SCAN_COUNT smallest elements of S
FirstOf(s, S) ==
  /\ Len(s) = SCAN_COUNT
  /\ \A k \in 1..Len(s) : s[k] \in S
  /\ \A k \in 1..(Len(s) - 1) : s[k] < s[k + 1]
  /\ \A z \in S : z < s[Len(s)] => \E k \in 1..Len(s) : s[k] = z

\* C12: both scans end without error, and at every read of te_pred/te_y the
\* scan index is below the number of test pairs, whatever the predictions
\* and labels, also with fewer than 10 false positives or false negatives.
C12_ScansEndWithinRange ==
  ScanRan =>
    /\ sc.pc # "error"
    /\ sc.pc \in {"fp_scan", "fn_scan"} => sc.index < Len(sc.te_pred)

\* What the scans do give: a scan ends in IndexError exactly when the test
\* set holds fewer than SCAN_COUNT pairs of its kind, after one read of
\* every test pair; else it collects the first SCAN_COUNT of them.
ScanFailsWhenTooFew ==
  ScanRan =>
    /\ sc.pc = "error" =>
         /\ sc.err = "IndexError"
         /\ sc.index = Len(sc.te_pred)
         /\ sc.failed = "fp_scan" => Cardinality(FalsePositives) < SCAN_COUNT
         /\ sc.failed = "fn_scan" => Cardinality(FalseNegatives) < SCAN_COUNT
    /\ sc.pc \in {"fn_scan", "fn_plot", "scanned"} =>
         /\ Cardinality(FalsePositives) >= SCAN_COUNT
         /\ FirstOf(sc.fp_plotted, FalsePositives)
    /\ sc.pc = "scanned" =>
         /\ Cardinality(FalseNegatives) >= SCAN_COUNT
         /\ FirstOf(sc.fn_plotted, FalseNegatives)

\* both scans ended with SCAN_COUNT pairs each
BothScansCompleted ==
  /\ ScanRan
  /\ sc.pc = "scanned"
  /\ Len(sc.fp_plotted) = SCAN_COUNT
  /\ Len(sc.fn_plotted) = SCAN_COUNT

\* the second scan failed on a test set with SCAN_COUNT false positives and
\* fewer false negatives
SecondScanFailed ==
  /\ ScanRan
  /\ sc.pc = "error"
  /\ sc.failed = "fn_scan"
  /\ Cardinality(FalseNegatives) < SCAN_COUNT

\* Every run of the scans comes to an end, with the plots or with the error.
ScansEnd == <>(sc.pc \in {"scanned", "error"})

NextScan ==
  \/ ScanBegin
  \/ ScanFalsePositives
  \/ ScanPlotFalsePositives
  \/ ScanFalseNegatives
  \/ ScanPlotFalseNegatives

SpecScan == InitScan /\ [][NextScan]_vars

\* the interpreter runs main's statements one after the other
SpecScanFair == SpecScan /\ WF_vars(NextScan)

====
